---- MODULE Spec2Model ----
(***************************************************************************)
(* A model of rdb2json_conversations: rdb_to_json.py (export of a Redis    *)
(* RDB through an ephemeral redis-server) and dump_to_conversations.py     *)
(* (the conversation filter over the exported document).                   *)
(*                                                                         *)
(* Python values are modelled as follows: bytes are sequences of integers  *)
(* 0..255, a str is a sequence of code points (or of one-character         *)
(* strings for ASCII-only text such as base64), None is the record None,   *)
(* a dict is a record/function whose DOMAIN is the set of keys present.    *)
(***************************************************************************)
EXTENDS Integers, Sequences, FiniteSets, TLC

VARIABLES
    \* ---- _encode_bytes harness
    encIn, encOut,
    \* ---- _collect_db_indexes harness
    infoReply, dbsOut,
    \* ---- _read_key_entry harness
    rkIn, rkOut,
    \* ---- dump_to_conversations.main
    fEntries, fIdx, fPc, out, skipped, parsed_fail, not_session_key, not_conversation,
    \* ---- export_rdb_to_json
    pc, rdbExists, rdbReadable, binary, store, tmpDir, proc, server, polls,
    dbs, dbPos, keys, keyPos, entries, result, outWrites, err,
    everTmp, everSpawned, probes, asked

encVars == <<encIn, encOut>>
dbsVars == <<infoReply, dbsOut>>
rkVars == <<rkIn, rkOut>>
filterVars == <<fEntries, fIdx, fPc, out, skipped, parsed_fail, not_session_key, not_conversation>>
exportVars == <<pc, rdbExists, rdbReadable, binary, store, tmpDir, proc, server, polls,
                dbs, dbPos, keys, keyPos, entries, result, outWrites, err,
                everTmp, everSpawned, probes, asked>>
vars == <<encVars, dbsVars, rkVars, filterVars, exportVars>>

\* Python's None, and the values that stand where None may stand too.
None == [py |-> "None"]
PyBytes(b) == [py |-> "bytes", b |-> b]
PyInt(n) == [py |-> "int", v |-> n]
PyStr(chars) == [py |-> "str", s |-> chars]

(***************************************************************************)
(* Bounds.                                                                 *)
(***************************************************************************)
\* Longest byte string given to _encode_bytes.
MaxLen == 4
\* Most names in a reply of INFO keyspace.
MaxInfoKeys == 3
\* Most entries in a document given to the filter.
MaxEntries == 2
\* Most keys in the snapshot the server loads.
MaxKeys == 2
\* Readiness probes before the 20 s of _wait_for_redis_ready are over.
MaxPolls == 2

\* The byte values the byte strings are drawn from: NUL, ASCII, the ends of
\* the continuation range, a 2-, 3- and 4-byte lead, the leads with a
\* restricted second byte (E0, ED, F0, F4) and a byte no sequence may hold.
ByteSamples == {0, 65, 128, 191, 194, 224, 237, 240, 244, 255}

RECURSIVE SeqsUpTo(_, _)
\* The sequences over S of length at most n.
SeqsUpTo(S, n) ==
    IF n = 0 THEN {<<>>}
    ELSE LET shorter == SeqsUpTo(S, n - 1)
         IN  shorter \cup {Append(q, x) : q \in shorter, x \in S}

(***************************************************************************)
(* UTF-8 and base64, as bytes.decode("utf-8") / str.encode("utf-8") and    *)
(* base64.b64encode / b64decode compute them.                              *)
(***************************************************************************)
IsCont(b) == b >= 128 /\ b <= 191

\* One decoding step of the strict UTF-8 codec at the head of b:
\* [ok, cp, n] = validity, code point, bytes consumed.
Utf8Step(b) ==
    LET lead == b[1]
        bad == [ok |-> FALSE, cp |-> 0, n |-> 0]
    IN  IF lead < 128 THEN [ok |-> TRUE, cp |-> lead, n |-> 1]
        ELSE IF lead >= 192 /\ lead < 224 THEN
            IF Len(b) >= 2 /\ IsCont(b[2])
            THEN LET cp == (lead - 192) * 64 + (b[2] - 128)
                 IN  IF cp >= 128 THEN [ok |-> TRUE, cp |-> cp, n |-> 2] ELSE bad
            ELSE bad
        ELSE IF lead >= 224 /\ lead < 240 THEN
            IF Len(b) >= 3 /\ IsCont(b[2]) /\ IsCont(b[3])
            THEN LET cp == (lead - 224) * 4096 + (b[2] - 128) * 64 + (b[3] - 128)
                 IN  IF cp >= 2048 /\ ~(cp >= 55296 /\ cp <= 57343)
                     THEN [ok |-> TRUE, cp |-> cp, n |-> 3] ELSE bad
            ELSE bad
        ELSE IF lead >= 240 /\ lead < 248 THEN
            IF Len(b) >= 4 /\ IsCont(b[2]) /\ IsCont(b[3]) /\ IsCont(b[4])
            THEN LET cp == (lead - 240) * 262144 + (b[2] - 128) * 4096
                           + (b[3] - 128) * 64 + (b[4] - 128)
                 IN  IF cp >= 65536 /\ cp <= 1114111
                     THEN [ok |-> TRUE, cp |-> cp, n |-> 4] ELSE bad
            ELSE bad
        ELSE bad

RECURSIVE Utf8Decode(_)
\* data.decode("utf-8"): [ok |-> TRUE, str |-> code points], or ok = FALSE
\* for UnicodeDecodeError.
Utf8Decode(b) ==
    IF b = <<>> THEN [ok |-> TRUE, str |-> <<>>]
    ELSE LET s == Utf8Step(b)
         IN  IF ~s.ok THEN [ok |-> FALSE, str |-> <<>>]
             ELSE LET r == Utf8Decode(SubSeq(b, s.n + 1, Len(b)))
                  IN  IF r.ok THEN [ok |-> TRUE, str |-> <<s.cp>> \o r.str]
                      ELSE [ok |-> FALSE, str |-> <<>>]

RECURSIVE Utf8DecodeReplace(_)
\* data.decode("utf-8", errors="replace"): an undecodable byte becomes U+FFFD.
Utf8DecodeReplace(b) ==
    IF b = <<>> THEN <<>>
    ELSE LET s == Utf8Step(b)
         IN  IF s.ok THEN <<s.cp>> \o Utf8DecodeReplace(SubSeq(b, s.n + 1, Len(b)))
             ELSE <<65533>> \o Utf8DecodeReplace(Tail(b))

\* The UTF-8 encoding of one code point.
Utf8EncodeCp(cp) ==
    IF cp < 128 THEN <<cp>>
    ELSE IF cp < 2048 THEN <<192 + (cp \div 64), 128 + (cp % 64)>>
    ELSE IF cp < 65536 THEN <<224 + (cp \div 4096), 128 + ((cp \div 64) % 64), 128 + (cp % 64)>>
    ELSE <<240 + (cp \div 262144), 128 + ((cp \div 4096) % 64),
           128 + ((cp \div 64) % 64), 128 + (cp % 64)>>

RECURSIVE Utf8Encode(_)
\* str.encode("utf-8")
Utf8Encode(s) ==
    IF s = <<>> THEN <<>> ELSE Utf8EncodeCp(Head(s)) \o Utf8Encode(Tail(s))

B64Alphabet ==
    << "A","B","C","D","E","F","G","H","I","J","K","L","M","N","O","P",
       "Q","R","S","T","U","V","W","X","Y","Z","a","b","c","d","e","f",
       "g","h","i","j","k","l","m","n","o","p","q","r","s","t","u","v",
       "w","x","y","z","0","1","2","3","4","5","6","7","8","9","+","/" >>

B64Char(i) == B64Alphabet[i + 1]

RECURSIVE B64(_)
\* _b64: base64.b64encode(data).decode("ascii")
B64(data) ==
    IF data = <<>> THEN <<>>
    ELSE IF Len(data) = 1 THEN
        <<B64Char(data[1] \div 4), B64Char((data[1] % 4) * 16), "=", "=">>
    ELSE IF Len(data) = 2 THEN
        <<B64Char(data[1] \div 4),
          B64Char((data[1] % 4) * 16 + (data[2] \div 16)),
          B64Char((data[2] % 16) * 4), "=">>
    ELSE
        <<B64Char(data[1] \div 4),
          B64Char((data[1] % 4) * 16 + (data[2] \div 16)),
          B64Char((data[2] % 16) * 4 + (data[3] \div 64)),
          B64Char(data[3] % 64)>> \o B64(SubSeq(data, 4, Len(data)))

\* _encode_bytes with errors="replace" instead of the base64 fallback (mutant).
EncodeBytesLossy(data) ==
    IF data = None THEN None
    ELSE [encoding |-> "utf-8", data |-> Utf8DecodeReplace(data.b)]

\* _encode_bytes: data is None or PyBytes(b).
EncodeBytes(data) ==
    IF data = None THEN None
    ELSE LET d == Utf8Decode(data.b)
         IN  IF d.ok THEN [encoding |-> "utf-8", data |-> d.str]
             ELSE [encoding |-> "base64", data |-> B64(data.b)]

\* _encode_key
EncodeKey(key) ==
    LET e == EncodeBytes(key)
    IN  IF e = None THEN [encoding |-> "base64", data |-> <<>>] ELSE e

(***************************************************************************)
(* Replies of the redis client: [ok |-> TRUE, val |-> v] for a returned    *)
(* value, [ok |-> FALSE, msg |-> m] for a raised exception with str(e)=m.  *)
(***************************************************************************)
Ok(v) == [ok |-> TRUE, val |-> v]
Raised(m) == [ok |-> FALSE, msg |-> m]

(***************************************************************************)
(* _collect_db_indexes                                                     *)
(***************************************************************************)
Digits == <<"0", "1", "2", "3", "4", "5", "6", "7", "8", "9">>
IsDigit(c) == \E i \in 1..10 : Digits[i] = c
DigitVal(c) == (CHOOSE i \in 1..10 : Digits[i] = c) - 1

RECURSIVE DigitsValue(_, _)
DigitsValue(s, acc) ==
    IF s = <<>> THEN acc ELSE DigitsValue(Tail(s), acc * 10 + DigitVal(Head(s)))

\* int(s) for s a string of decimal digits or holding a character that is
\* no digit, sign, blank or underscore: ok = FALSE is ValueError.
ParseInt(s) ==
    IF s # <<>> /\ \A i \in 1..Len(s) : IsDigit(s[i])
    THEN [ok |-> TRUE, val |-> DigitsValue(s, 0)]
    ELSE [ok |-> FALSE, val |-> 0]

\* "db" followed by the decimal numeral of n, for n < 100.
DbName(n) ==
    <<"d", "b">> \o (IF n < 10 THEN <<Digits[n + 1]>>
                     ELSE <<Digits[(n \div 10) + 1], Digits[(n % 10) + 1]>>)

\* k.startswith("db")
StartsWithDb(k) == Len(k) >= 2 /\ k[1] = "d" /\ k[2] = "b"

RECURSIVE DbsOfInfo(_)
\* The loop of lines 160-165: the list dbs, in the dict's iteration order.
DbsOfInfo(names) ==
    IF names = <<>> THEN <<>>
    ELSE LET k == Head(names)
             p == ParseInt(SubSeq(k, 3, Len(k)))
         IN  IF StartsWithDb(k) /\ p.ok
             THEN <<p.val>> \o DbsOfInfo(Tail(names))
             ELSE DbsOfInfo(Tail(names))

SeqRange(q) == {q[i] : i \in 1..Len(q)}

RECURSIVE SortedInts(_)
\* sorted(S) for a set of ints
SortedInts(S) ==
    IF S = {} THEN <<>>
    ELSE LET m == CHOOSE x \in S : \A y \in S : x <= y
         IN  <<m>> \o SortedInts(S \ {m})

\* _collect_db_indexes returning the list in encounter order (mutant).
CollectDbIndexesUnsorted(reply) ==
    IF ~reply.ok THEN <<0>>
    ELSE LET l == DbsOfInfo([i \in 1..Len(reply.val) |-> reply.val[i].name])
         IN  IF l = <<>> THEN <<0>> ELSE l

\* _collect_db_indexes: reply is that of r.info("keyspace"), its value the
\* items of the dict in order, each [name |-> key, keys |-> number of keys].
CollectDbIndexes(reply) ==
    IF ~reply.ok THEN <<0>>
    ELSE LET l == DbsOfInfo([i \in 1..Len(reply.val) |-> reply.val[i].name])
             sorted == SortedInts(SeqRange(l))
         IN  IF sorted = <<>> THEN <<0>> ELSE sorted

(***************************************************************************)
(* _read_key_entry                                                         *)
(***************************************************************************)
KnownTypes == {"string", "hash", "list", "set", "zset", "stream"}

\* Lines 183-187: the reply of TYPE as a str. The reply is an ASCII type
\* name, which decode("utf-8", errors="replace") leaves as it is.
KeyTypeStr(typeVal) == typeVal

\* Lines 189-194 with the sentinel test off by one (mutant).
TtlMsSentinelOnly(pttlReply) ==
    IF ~pttlReply.ok THEN None
    ELSE IF pttlReply.val < -1 THEN None ELSE PyInt(pttlReply.val)

\* Lines 189-194: ttl_ms from the reply of PTTL.
TtlMs(pttlReply) ==
    IF ~pttlReply.ok THEN None
    ELSE IF pttlReply.val < 0 THEN None ELSE PyInt(pttlReply.val)

\* Lexicographic order of bytes objects.
RECURSIVE BytesLess(_, _)
BytesLess(a, b) ==
    IF a = <<>> THEN b # <<>>
    ELSE IF b = <<>> THEN FALSE
    ELSE IF Head(a) # Head(b) THEN Head(a) < Head(b)
    ELSE BytesLess(Tail(a), Tail(b))

RECURSIVE SortedBytes(_)
\* list(r.smembers(key)) followed by vals.sort()
SortedBytes(S) ==
    IF S = {} THEN <<>>
    ELSE LET m == CHOOSE x \in S : \A y \in S \ {x} : BytesLess(x.b, y.b)
         IN  <<m>> \o SortedBytes(S \ {m})

EncodeAll(vals) == [i \in 1..Len(vals) |-> EncodeBytes(vals[i])]

\* Lines 208-210: a hash as a list of {field, value}.
HashValue(items) ==
    [i \in 1..Len(items) |->
        [field |-> EncodeBytes(items[i][1]), value |-> EncodeBytes(items[i][2])]]

\* Line 221
ZsetValue(vals) ==
    [i \in 1..Len(vals) |-> [member |-> EncodeBytes(vals[i][1]), score |-> vals[i][2]]]

\* _encode_scalar on the id of a stream item, which is bytes.
EncodeScalar(v) == EncodeBytes(v)

\* Lines 224-231. redis-py returns each item as (id, dict of field -> value),
\* so "for f, v in fields" iterates the dict's keys and unpacks each key: a
\* key of two bytes unpacks into two ints and _encode_bytes(int) raises
\* AttributeError, any other key raises ValueError. Only items without
\* fields are encoded.
StreamValue(items) ==
    IF \E i \in 1..Len(items) : items[i][2] # <<>>
    THEN LET i == CHOOSE j \in 1..Len(items) :
                    /\ items[j][2] # <<>>
                    /\ \A k \in 1..(j - 1) : items[k][2] = <<>>
             f == items[i][2][1][1].b
         IN  Raised(IF Len(f) = 2 THEN "'int' object has no attribute 'decode'"
                    ELSE IF Len(f) > 2 THEN "too many values to unpack (expected 2)"
                    ELSE "not enough values to unpack")
    ELSE Ok([i \in 1..Len(items) |-> [id |-> EncodeScalar(items[i][1]), fields |-> <<>>]])

\* Lines 234-238 with the encoding tag of another format (mutant).
DumpValueOtherTag(payload) ==
    [encoding |-> "dump-base64",
     data |-> IF payload # None THEN PyStr(B64(payload.b)) ELSE None]

\* Lines 234-238: the value of a key of no known type.
DumpValue(payload) ==
    [encoding |-> "redis-dump-base64",
     data |-> IF payload # None THEN PyStr(B64(payload.b)) ELSE None]

\* The body of the try of lines 202-238: the retrieval call of the type and
\* the encoding of its reply; Ok(value) or the exception raised.
Retrieve(key_type_str, valReply) ==
    IF ~valReply.ok THEN valReply
    ELSE IF key_type_str = "string" THEN Ok(EncodeBytes(valReply.val))
    ELSE IF key_type_str = "hash" THEN Ok(HashValue(valReply.val))
    ELSE IF key_type_str = "list" THEN Ok(EncodeAll(valReply.val))
    ELSE IF key_type_str = "set" THEN Ok(EncodeAll(SortedBytes(valReply.val)))
    ELSE IF key_type_str = "zset" THEN Ok(ZsetValue(valReply.val))
    ELSE IF key_type_str = "stream" THEN StreamValue(valReply.val)
    ELSE Ok(DumpValue(valReply.val))

\* Lines 202-240 setting value before the call and error after it (mutant).
RetrievalFieldsBoth(key_type_str, valReply) ==
    LET r == Retrieve(key_type_str, valReply)
    IN  IF r.ok THEN [value |-> r.val] ELSE [value |-> None, error |-> r.msg]

\* Lines 202-240: what the try/except adds to the entry.
RetrievalFields(key_type_str, valReply) ==
    LET r == Retrieve(key_type_str, valReply)
    IN  IF r.ok THEN [value |-> r.val] ELSE [error |-> r.msg]

\* _read_key_entry: [raised |-> FALSE, entry |-> the dict returned], or
\* [raised |-> TRUE, exc |-> message] when r.type(key), which no try
\* encloses, raises.
ReadKeyEntry(key, typeReply, pttlReply, valReply) ==
    IF ~typeReply.ok THEN [raised |-> TRUE, exc |-> typeReply.msg]
    ELSE LET key_type_str == KeyTypeStr(typeReply.val)
             entry == [key |-> EncodeKey(key),
                       type |-> key_type_str,
                       ttl_ms |-> TtlMs(pttlReply)]
         IN  [raised |-> FALSE,
              entry |-> entry @@ RetrievalFields(key_type_str, valReply)]

(***************************************************************************)
(* dump_to_conversations.py. A parsed JSON value is tagged with its Python *)
(* type: a dict carries the record of its items, a str its characters, a   *)
(* list its elements.                                                      *)
(***************************************************************************)
JNull == [t |-> "NoneType"]
JInt(n) == [t |-> "int", n |-> n]
JStr(chars) == [t |-> "str", s |-> chars]
JList(elems) == [t |-> "list", l |-> elems]
JDict(items) == [t |-> "dict", d |-> items]

IsDict(x) == x.t = "dict"
IsStr(x) == x.t = "str"
IsList(x) == x.t = "list"

\* d.get(k) for a dict d
Get(x, k) == IF k \in DOMAIN x.d THEN x.d[k] ELSE JNull

StrUtf8 == <<"u", "t", "f", "-", "8">>
StrBase64 == <<"b", "a", "s", "e", "6", "4">>
StrBase64Colon == <<"b", "a", "s", "e", "6", "4", ":">>
StrString == <<"s", "t", "r", "i", "n", "g">>
StrHash == <<"h", "a", "s", "h">>
\* The literal prefix of _SESSION_KEY_RE.
SessionPrefix == <<"c", "h", "a", "t", ":", "s", "e", "s", "s", "i", "o", "n", "_">>

\* _get_key_string: the str returned, or None.
GetKeyString(entry) ==
    LET k == Get(entry, "key")
    IN  IF IsDict(k) /\ Get(k, "encoding") = JStr(StrUtf8) /\ IsStr(Get(k, "data"))
        THEN Get(k, "data").s
        ELSE IF IsDict(k) /\ Get(k, "encoding") = JStr(StrBase64) /\ IsStr(Get(k, "data"))
        THEN StrBase64Colon \o Get(k, "data").s
        ELSE IF IsStr(k) THEN k.s
        ELSE None

\* _get_utf8_value_string: the str returned, or None.
GetUtf8ValueString(entry) ==
    LET v == Get(entry, "value")
    IN  IF ~IsDict(v) THEN None
        ELSE IF Get(v, "encoding") = JStr(StrUtf8) /\ IsStr(Get(v, "data"))
        THEN Get(v, "data").s
        ELSE None

\* _SESSION_KEY_RE.match(key_str), ^chat:session_(?P<sid>.+)$ : "." matches
\* no newline and "$" matches at the end or before a newline ending the
\* string. [ok |-> whether it matches, sid |-> the group sid].
SessionKeyMatch(key_str) ==
    LET n == Len(SessionPrefix)
        rest == SubSeq(key_str, n + 1, Len(key_str))
        nl == IF \E i \in 1..Len(rest) : rest[i] = "\n"
              THEN CHOOSE i \in 1..Len(rest) :
                       rest[i] = "\n" /\ \A j \in 1..(i - 1) : rest[j] # "\n"
              ELSE Len(rest) + 1
    IN  IF /\ Len(key_str) >= n
           /\ SubSeq(key_str, 1, n) = SessionPrefix
           /\ nl >= 2
           /\ nl >= Len(rest)
        THEN [ok |-> TRUE, sid |-> SubSeq(rest, 1, nl - 1)]
        ELSE [ok |-> FALSE, sid |-> <<>>]

\* The texts given to json.loads.
RawConversation == <<"[", "{", "\"", "r", "o", "l", "e", "\"", ":", "\"", "u", "s", "e", "r", "\"", ",", "\"", "c", "o", "n", "t", "e", "n", "t", "\"", ":", "\"", "h", "i", "\"", "}", "]">>
RawNotJson == <<"n", "o", "t", " ", "j", "s", "o", "n">>
RawEmptyList == <<"[", "]">>
RawObject == <<"{", "\"", "r", "o", "l", "e", "\"", ":", "\"", "u", "s", "e", "r", "\"", ",", "\"", "c", "o", "n", "t", "e", "n", "t", "\"", ":", "\"", "h", "i", "\"", "}">>
RawRoleOnly == <<"[", "{", "\"", "r", "o", "l", "e", "\"", ":", "\"", "u", "s", "e", "r", "\"", "}", "]">>
RawTenth == <<"[", "0", ",", "0", ",", "0", ",", "0", ",", "0", ",", "0", ",", "0", ",", "0", ",", "0", ",", "{", "\"", "r", "o", "l", "e", "\"", ":", "\"", "a", "\"", ",", "\"", "c", "o", "n", "t", "e", "n", "t", "\"", ":", "\"", "b", "\"", "}", "]">>
RawEleventh == <<"[", "0", ",", "0", ",", "0", ",", "0", ",", "0", ",", "0", ",", "0", ",", "0", ",", "0", ",", "0", ",", "{", "\"", "r", "o", "l", "e", "\"", ":", "\"", "a", "\"", ",", "\"", "c", "o", "n", "t", "e", "n", "t", "\"", ":", "\"", "b", "\"", "}", "]">>

Turn(role, content) == JDict([role |-> JStr(role), content |-> JStr(content)])

\* json.loads(raw) on the texts above: Ok(parsed value), or Raised for
\* JSONDecodeError.
JsonLoads(raw) ==
    IF raw = RawConversation THEN Ok(JList(<<Turn(<<"u", "s", "e", "r">>, <<"h", "i">>)>>))
    ELSE IF raw = RawEmptyList THEN Ok(JList(<<>>))
    ELSE IF raw = RawObject THEN Ok(Turn(<<"u", "s", "e", "r">>, <<"h", "i">>))
    ELSE IF raw = RawRoleOnly THEN Ok(JList(<<JDict([role |-> JStr(<<"u", "s", "e", "r">>)])>>))
    ELSE IF raw = RawTenth
    THEN Ok(JList([i \in 1..10 |-> IF i = 10 THEN Turn(<<"a">>, <<"b">>) ELSE JInt(0)]))
    ELSE IF raw = RawEleventh
    THEN Ok(JList([i \in 1..11 |-> IF i = 11 THEN Turn(<<"a">>, <<"b">>) ELSE JInt(0)]))
    ELSE Raised("Expecting value")

\* The slice obj[:10] ends at this index.
HeadSlice == 10

IsTurn(item) == IsDict(item) /\ "role" \in DOMAIN item.d /\ "content" \in DOMAIN item.d

\* _looks_like_conversation looking at every element (mutant).
LooksLikeConversationAll(obj) ==
    /\ IsList(obj)
    /\ obj.l # <<>>
    /\ \E i \in 1..Len(obj.l) : IsTurn(obj.l[i])

\* _looks_like_conversation
LooksLikeConversation(obj) ==
    IF ~IsList(obj) \/ obj.l = <<>> THEN FALSE
    ELSE LET head == SubSeq(obj.l, 1, IF Len(obj.l) < HeadSlice THEN Len(obj.l) ELSE HeadSlice)
             n == Cardinality({i \in 1..Len(head) : IsTurn(head[i])})
         IN  n >= 1

\* The body of main's loop for one entry (lines 86-116): the counter to
\* increment, or "out" with the pair to append.
Classify(entry) ==
    IF ~IsDict(entry) THEN [to |-> "skipped"]
    ELSE LET key_str == GetKeyString(entry)
         IN  IF key_str = None \/ key_str = <<>> THEN [to |-> "skipped"]
             ELSE LET m == SessionKeyMatch(key_str)
                  IN  IF ~m.ok THEN [to |-> "not_session_key"]
                      ELSE LET raw == GetUtf8ValueString(entry)
                           IN  IF raw = None THEN [to |-> "skipped"]
                               ELSE LET parsed == JsonLoads(raw)
                                    IN  IF ~parsed.ok THEN [to |-> "parsed_fail"]
                                        ELSE IF ~LooksLikeConversation(parsed.val)
                                        THEN [to |-> "not_conversation"]
                                        ELSE [to |-> "out",
                                              pair |-> [session_id |-> m.sid,
                                                        conversation |-> parsed.val]]

(***************************************************************************)
(* Idle values of each component's state, for the specifications that do   *)
(* not exercise it.                                                        *)
(***************************************************************************)
EncIdle == encIn = <<>> /\ encOut = <<>>
DbsIdle == infoReply = Raised("idle") /\ dbsOut = <<>>
RkIdle == rkIn = <<>> /\ rkOut = <<>>
FilterIdle ==
    /\ fEntries = <<>> /\ fIdx = 0 /\ fPc = "idle" /\ out = <<>>
    /\ skipped = 0 /\ parsed_fail = 0 /\ not_session_key = 0 /\ not_conversation = 0
ExportIdle ==
    /\ pc = "idle" /\ rdbExists = FALSE /\ rdbReadable = FALSE /\ binary = "missing"
    /\ store = <<>> /\ tmpDir = "none" /\ proc = "none" /\ server = "down" /\ polls = 0
    /\ dbs = <<>> /\ dbPos = 0 /\ keys = <<>> /\ keyPos = 0 /\ entries = <<>>
    /\ result = <<>> /\ outWrites = 0 /\ err = [cls |-> "none", msg |-> ""]
    /\ everTmp = FALSE /\ everSpawned = FALSE /\ probes = 0 /\ asked = <<>>

(***************************************************************************)
(* _encode_bytes on its own: the input is any byte string over ByteSamples *)
(* up to MaxLen bytes, the one action applies the function.                *)
(***************************************************************************)
InitEncode ==
    /\ encIn \in SeqsUpTo(ByteSamples, MaxLen)
    /\ encOut = <<>>
    /\ DbsIdle /\ RkIdle /\ FilterIdle /\ ExportIdle

EncodeCall ==
    /\ encOut = <<>>
    /\ encOut' = <<EncodeBytes(PyBytes(encIn))>>
    /\ UNCHANGED <<encIn, dbsVars, rkVars, filterVars, exportVars>>

SpecEncode == InitEncode /\ [][EncodeCall]_vars

(***************************************************************************)
(* _collect_db_indexes on its own: the reply of INFO keyspace is either an *)
(* exception or a dict of at most MaxInfoKeys distinct names, in any order.*)
(***************************************************************************)
\* The names INFO keyspace is given to report: db<index> lines, and names
\* the loop of _collect_db_indexes skips (no "db" prefix, no index).
InfoNames == { <<"d", "b", "0">>, <<"d", "b", "1">>, <<"d", "b", "2">>, <<"d", "b", "1", "0">>, <<"d", "b", "x">>, <<"k", "e", "y", "s">> }

\* Sequences over S without repetition, of length at most n.
RECURSIVE DistinctSeqs(_, _)
DistinctSeqs(S, n) ==
    IF n = 0 THEN {<<>>}
    ELSE LET shorter == DistinctSeqs(S, n - 1)
         IN  shorter \cup UNION {{Append(q, x) : x \in S \ SeqRange(q)} : q \in shorter}

InfoReplies ==
    {Ok([i \in 1..Len(names) |-> [name |-> names[i], keys |-> 1]]) :
        names \in DistinctSeqs(InfoNames, MaxInfoKeys)}

InitDbs ==
    /\ \/ infoReply \in InfoReplies
       \/ infoReply = Raised("Connection refused")
    /\ dbsOut = <<>>
    /\ EncIdle /\ RkIdle /\ FilterIdle /\ ExportIdle

CollectCall ==
    /\ dbsOut = <<>>
    /\ dbsOut' = <<CollectDbIndexes(infoReply)>>
    /\ UNCHANGED <<infoReply, encVars, rkVars, filterVars, exportVars>>

SpecDbs == InitDbs /\ [][CollectCall]_vars

(***************************************************************************)
(* _read_key_entry on its own: a key and the replies of TYPE, PTTL and of  *)
(* the retrieval command of the type.                                      *)
(***************************************************************************)
\* Key names: ASCII, not UTF-8, empty.
KeySamples == {PyBytes(<<107>>), PyBytes(<<255, 0>>), PyBytes(<<>>)}

\* The types TYPE reports: the six known ones, "none" for a key that
\* expired since SCAN, and a module type.
TypeNames == <<"string", "hash", "list", "set", "zset", "stream", "none", "ReJSON-RL">>

\* PTTL: -2 no such key, -1 no expiry, else the remaining milliseconds.
PttlValues == {-2, -1, 0, 1, 1500}

\* One field-value pair, as redis-py returns the pairs of a hash or item.
PairFV == <<PyBytes(<<102>>), PyBytes(<<118, 255>>)>>
PairLongField == <<PyBytes(<<102, 111>>), PyBytes(<<118>>)>>
StreamId == PyBytes(<<49, 45, 48>>)

\* The replies of the retrieval command of each type (a tuple: the values
\* are of different shapes). The last one is always the command raising.
ValueReplies(key_type_str) ==
    IF key_type_str = "string"
    THEN <<Ok(PyBytes(<<104, 105>>)), Ok(PyBytes(<<255>>)), Ok(None), Raised("WRONGTYPE")>>
    ELSE IF key_type_str = "hash"
    THEN <<Ok(<<PairFV>>), Ok(<<>>), Raised("Connection reset")>>
    ELSE IF key_type_str = "list"
    THEN <<Ok(<<PyBytes(<<98>>), PyBytes(<<97>>), PyBytes(<<255>>)>>), Ok(<<>>),
           Raised("Connection reset")>>
    ELSE IF key_type_str = "set"
    THEN <<Ok({PyBytes(<<98>>), PyBytes(<<97>>), PyBytes(<<97, 0>>)}), Ok({}),
           Raised("Connection reset")>>
    ELSE IF key_type_str = "zset"
    THEN <<Ok(<< <<PyBytes(<<97>>), 1>>, <<PyBytes(<<98>>), 2>> >>),
           Raised("Connection reset")>>
    ELSE IF key_type_str = "stream"
    THEN <<Ok(<<>>), Ok(<< <<StreamId, <<>>>> >>),
           Ok(<< <<StreamId, <<PairFV>>>> >>),
           Ok(<< <<StreamId, <<PairLongField>>>> >>),
           Raised("Connection reset")>>
    ELSE <<Ok(PyBytes(<<0, 255, 9>>)), Ok(None), Raised("Connection reset")>>

InitReadKey ==
    /\ \E key \in KeySamples :
          \/ \E pttlReply \in {Ok(v) : v \in PttlValues} \cup {Raised("Connection reset")} :
             \E t \in 1..Len(TypeNames) :
             \E i \in 1..Len(ValueReplies(TypeNames[t])) :
                rkIn = [key |-> key, typeReply |-> Ok(TypeNames[t]),
                        pttlReply |-> pttlReply,
                        valReply |-> ValueReplies(TypeNames[t])[i]]
          \/ rkIn = [key |-> key, typeReply |-> Raised("Connection reset"),
                     pttlReply |-> Raised("Connection reset"),
                     valReply |-> Raised("Connection reset")]
    /\ rkOut = <<>>
    /\ EncIdle /\ DbsIdle /\ FilterIdle /\ ExportIdle

ReadKeyCall ==
    /\ rkOut = <<>>
    /\ rkOut' = <<ReadKeyEntry(rkIn.key, rkIn.typeReply, rkIn.pttlReply, rkIn.valReply)>>
    /\ UNCHANGED <<rkIn, encVars, dbsVars, filterVars, exportVars>>

SpecReadKey == InitReadKey /\ [][ReadKeyCall]_vars

(***************************************************************************)
(* dump_to_conversations.main over the entries of database "0".            *)
(***************************************************************************)
Encoded(enc, chars) == JDict([encoding |-> JStr(enc), data |-> JStr(chars)])
SessionEntry(key, type, raw) ==
    JDict([key |-> Encoded(StrUtf8, key), type |-> JStr(type), ttl_ms |-> JNull,
           value |-> Encoded(StrUtf8, raw)])

KeyAbc == <<"c", "h", "a", "t", ":", "s", "e", "s", "s", "i", "o", "n", "_", "a", "b", "c">>
KeyB == <<"c", "h", "a", "t", ":", "s", "e", "s", "s", "i", "o", "n", "_", "b">>
KeyNoId == <<"c", "h", "a", "t", ":", "s", "e", "s", "s", "i", "o", "n", "_">>
KeyNewline == <<"c", "h", "a", "t", ":", "s", "e", "s", "s", "i", "o", "n", "_", "a", "\n">>
KeyConfig == <<"c", "o", "n", "f", "i", "g", ":", "x">>

\* The entries the documents are made of (a tuple: they differ in shape).
EntrySamples ==
    << SessionEntry(KeyAbc, StrString, RawConversation),
       SessionEntry(KeyB, StrString, RawTenth),
       SessionEntry(KeyB, StrString, RawEleventh),
       SessionEntry(KeyAbc, StrString, RawNotJson),
       SessionEntry(KeyAbc, StrString, RawEmptyList),
       SessionEntry(KeyAbc, StrString, RawObject),
       SessionEntry(KeyAbc, StrString, RawRoleOnly),
       SessionEntry(KeyNoId, StrString, RawConversation),
       SessionEntry(KeyNewline, StrString, RawConversation),
       SessionEntry(<<>>, StrString, RawConversation),
       SessionEntry(KeyB, StrHash, RawConversation),
       JDict([key |-> Encoded(StrUtf8, KeyConfig), type |-> JStr(StrHash), ttl_ms |-> JNull,
              value |-> JList(<<JDict([field |-> Encoded(StrUtf8, <<"a">>),
                                       value |-> Encoded(StrUtf8, <<"b">>)])>>)]),
       JDict([key |-> Encoded(StrBase64, <<"/", "w", "=", "=">>), type |-> JStr(StrString),
              ttl_ms |-> JNull, value |-> Encoded(StrUtf8, RawConversation)]),
       JDict([key |-> Encoded(StrUtf8, KeyAbc), type |-> JStr(StrString), ttl_ms |-> JNull,
              value |-> Encoded(StrBase64, <<"/", "w", "=", "=">>)]),
       JDict([key |-> Encoded(StrUtf8, KeyAbc), type |-> JStr(StrString), ttl_ms |-> JNull,
              error |-> JStr(<<"x">>)]),
       JDict([key |-> JStr(KeyAbc), value |-> Encoded(StrUtf8, RawConversation)]),
       JDict([value |-> Encoded(StrUtf8, RawConversation)]),
       JInt(5) >>

InitFilter ==
    /\ \E n \in 0..MaxEntries : \E pick \in [1..n -> 1..Len(EntrySamples)] :
          fEntries = [i \in 1..n |-> EntrySamples[pick[i]]]
    /\ fIdx = 0 /\ fPc = "loop" /\ out = <<>>
    /\ skipped = 0 /\ parsed_fail = 0 /\ not_session_key = 0 /\ not_conversation = 0
    /\ EncIdle /\ DbsIdle /\ RkIdle /\ ExportIdle

Bump(counter, c, name) == IF c.to = name THEN counter + 1 ELSE counter

\* One iteration of the loop of lines 85-116.
FilterStep ==
    /\ fPc = "loop"
    /\ fIdx < Len(fEntries)
    /\ LET c == Classify(fEntries[fIdx + 1])
       IN  /\ out' = IF c.to = "out" THEN Append(out, c.pair) ELSE out
           /\ skipped' = Bump(skipped, c, "skipped")
           /\ not_session_key' = Bump(not_session_key, c, "not_session_key")
           /\ parsed_fail' = Bump(parsed_fail, c, "parsed_fail")
           /\ not_conversation' = Bump(not_conversation, c, "not_conversation")
    /\ fIdx' = fIdx + 1
    /\ UNCHANGED <<fEntries, fPc, encVars, dbsVars, rkVars, exportVars>>

\* Lines 118-126: the loop is over, out is written and the counts printed.
FilterWrite ==
    /\ fPc = "loop"
    /\ fIdx = Len(fEntries)
    /\ fPc' = "written"
    /\ UNCHANGED <<fEntries, fIdx, out, skipped, parsed_fail, not_session_key,
                   not_conversation, encVars, dbsVars, rkVars, exportVars>>

NextFilter == FilterStep \/ FilterWrite

SpecFilter == InitFilter /\ [][NextFilter]_vars

(***************************************************************************)
(* export_rdb_to_json. pc is the place of the call; the server process and *)
(* what it loaded are the environment.                                     *)
(***************************************************************************)
NoError == [cls |-> "none", msg |-> ""]
\* Line 247
RdbMissing == [cls |-> "FileNotFoundError", msg |-> "rdb_path"]
\* Lines 252-255
CouldNotRun == [cls |-> "RuntimeError", msg |-> "Could not run redis-server"]
\* Lines 271-278
StartupFailure == [cls |-> "RuntimeError", msg |-> "Failed to start redis-server or load the RDB"]
\* An exception of the operating system, of the redis client or of a reply.
Propagated(cls, msg) == [cls |-> cls, msg |-> msg]

\* The databases of the snapshots, and the snapshots: each database holds a
\* list of distinct keys (in SCAN order), MaxKeys keys at most in all.
StoreDbs == {0, 1}
Stores ==
    {st \in [StoreDbs -> DistinctSeqs(KeySamples, MaxKeys)] :
        Len(st[0]) + Len(st[1]) <= MaxKeys}

\* The reply of INFO keyspace of a server holding st: a line per database
\* with keys, in ascending order.
InfoOf(st) ==
    LET nonEmpty == SortedInts({d \in StoreDbs : st[d] # <<>>})
    IN  [i \in 1..Len(nonEmpty) |->
            [name |-> DbName(nonEmpty[i]), keys |-> Len(st[nonEmpty[i]])]]

\* _scan_keys after SELECT dbi: the keys of the database.
ScanKeys(st, dbi) == IF dbi \in DOMAIN st THEN st[dbi] ELSE <<>>

\* The replies one key is given in an export: all three queries answer; the
\* retrieval raises; PTTL raises; TYPE raises; a stream with one item.
KeyReplies ==
    << [typeReply |-> Ok("string"), pttlReply |-> Ok(-1),
        valReply |-> Ok(PyBytes(<<104, 105>>))],
       [typeReply |-> Ok("string"), pttlReply |-> Ok(1500),
        valReply |-> Raised("Connection reset")],
       [typeReply |-> Ok("hash"), pttlReply |-> Raised("Connection reset"),
        valReply |-> Ok(<<PairFV>>)],
       [typeReply |-> Raised("Connection reset"), pttlReply |-> Raised("Connection reset"),
        valReply |-> Raised("Connection reset")],
       [typeReply |-> Ok("stream"), pttlReply |-> Ok(-1),
        valReply |-> Ok(<< <<StreamId, <<PairFV>>>> >>)] >>

\* With the server gone every query raises.
DeadReplies ==
    [typeReply |-> Raised("Connection refused"), pttlReply |-> Raised("Connection refused"),
     valReply |-> Raised("Connection refused")]

\* _redis_server_version giving a placeholder for a missing binary (mutant).
RedisServerVersionPlaceholder(bin) ==
    IF bin = "noexec" THEN Raised("PermissionError") ELSE Ok(PyStr(<<"?">>))

\* _redis_server_version: Ok(version or None), or the exception that
\* subprocess.run raises and the function does not catch.
RedisServerVersion(bin) ==
    IF bin = "ok" THEN Ok(PyStr(<<"v", "7">>))
    ELSE IF bin = "missing" THEN Ok(None)
    ELSE IF bin = "silent" THEN Ok(None)
    ELSE Raised("PermissionError")

InitExport ==
    /\ pc = "start"
    /\ rdbExists \in BOOLEAN
    /\ rdbReadable \in BOOLEAN
    /\ rdbReadable => rdbExists
    /\ binary \in {"ok", "missing", "noexec", "silent"}
    /\ store = [d \in StoreDbs |-> <<>>]
    /\ tmpDir = "none" /\ proc = "none" /\ server = "down" /\ polls = 0
    /\ dbs = <<>> /\ dbPos = 0 /\ keys = <<>> /\ keyPos = 0 /\ entries = <<>>
    /\ result = <<>> /\ outWrites = 0 /\ err = NoError
    /\ everTmp = FALSE /\ everSpawned = FALSE /\ probes = 0 /\ asked = <<>>
    /\ EncIdle /\ DbsIdle /\ RkIdle /\ FilterIdle

harness == <<encVars, dbsVars, rkVars, filterVars>>

\* Lines 246-247
CheckRdb ==
    /\ pc = "start"
    /\ IF rdbExists THEN pc' = "probe_binary" /\ err' = err
       ELSE pc' = "raised" /\ err' = RdbMissing
    /\ UNCHANGED <<rdbExists, rdbReadable, binary, store, tmpDir, proc, server, polls,
                   dbs, dbPos, keys, keyPos, entries, result, outWrites,
                   everTmp, everSpawned, probes, asked, harness>>

\* Lines 249-255: the port is picked and the binary asked for its version.
ProbeBinary ==
    /\ pc = "probe_binary"
    /\ LET redis_ver == RedisServerVersion(binary)
       IN  IF ~redis_ver.ok
           THEN pc' = "raised" /\ err' = Propagated(redis_ver.msg, "")
           ELSE IF redis_ver.val = None
           THEN pc' = "raised" /\ err' = CouldNotRun
           ELSE pc' = "mktemp" /\ err' = err
    /\ UNCHANGED <<rdbExists, rdbReadable, binary, store, tmpDir, proc, server, polls,
                   dbs, dbPos, keys, keyPos, entries, result, outWrites,
                   everTmp, everSpawned, probes, asked, harness>>

\* Line 257: the temporary directory is made.
MakeTemp ==
    /\ pc = "mktemp"
    /\ tmpDir' = "present"
    /\ everTmp' = TRUE
    /\ pc' = "start_redis"
    /\ UNCHANGED <<rdbExists, rdbReadable, binary, store, proc, server, polls,
                   dbs, dbPos, keys, keyPos, entries, result, outWrites, err,
                   everSpawned, probes, asked, harness>>

\* Line 258, _start_redis_for_rdb: the snapshot is copied, the server is
\* spawned. A failing copy leaves through the with statement alone.
StartRedis ==
    /\ pc = "start_redis"
    /\ IF rdbReadable
       THEN /\ proc' = "running"
            /\ server' = "loading"
            /\ everSpawned' = TRUE
            /\ pc' = "wait_ready"
            /\ err' = err
       ELSE /\ pc' = "rmtree"
            /\ err' = Propagated("PermissionError", "rdb_path")
            /\ UNCHANGED <<proc, server, everSpawned>>
    /\ UNCHANGED <<rdbExists, rdbReadable, binary, store, tmpDir, polls,
                   dbs, dbPos, keys, keyPos, entries, result, outWrites,
                   everTmp, probes, asked, harness>>

\* The server has loaded the snapshot and answers.
ServerReady ==
    /\ proc = "running"
    /\ server = "loading"
    /\ server' = "ready"
    /\ store' \in Stores
    /\ UNCHANGED <<pc, rdbExists, rdbReadable, binary, tmpDir, proc, polls,
                   dbs, dbPos, keys, keyPos, entries, result, outWrites, err,
                   everTmp, everSpawned, probes, asked, harness>>

\* The server process ends by itself (it cannot load the snapshot, it
\* crashes).
ServerExits ==
    /\ proc = "running"
    /\ proc' = "exited"
    /\ server' = "down"
    /\ UNCHANGED <<pc, rdbExists, rdbReadable, binary, store, tmpDir, polls,
                   dbs, dbPos, keys, keyPos, entries, result, outWrites, err,
                   everTmp, everSpawned, probes, asked, harness>>

\* One iteration of the loop of _wait_for_redis_ready (lines 145-151): a
\* ping, and a sleep when it raised.
Poll ==
    /\ pc = "wait_ready"
    /\ polls < MaxPolls
    /\ probes' = probes + 1
    /\ IF server = "ready"
       THEN pc' = "collect_dbs" /\ polls' = polls
       ELSE pc' = pc /\ polls' = polls + 1
    /\ UNCHANGED <<rdbExists, rdbReadable, binary, store, tmpDir, proc, server,
                   dbs, dbPos, keys, keyPos, entries, result, outWrites, err,
                   everTmp, everSpawned, asked, harness>>

\* Line 152 caught at line 263: the 20 s are over.
PollTimeout ==
    /\ pc = "wait_ready"
    /\ polls = MaxPolls
    /\ pc' = "read_diag"
    /\ UNCHANGED <<rdbExists, rdbReadable, binary, store, tmpDir, proc, server, polls,
                   dbs, dbPos, keys, keyPos, entries, result, outWrites, err,
                   everTmp, everSpawned, probes, asked, harness>>

\* Lines 265-278: proc.stderr.read() and proc.stdout.read() return at the
\* end of file of the pipes, which comes when the server process has ended;
\* then the RuntimeError is raised.
ReadDiag ==
    /\ pc = "read_diag"
    /\ proc # "running"
    /\ err' = StartupFailure
    /\ pc' = "finally"
    /\ UNCHANGED <<rdbExists, rdbReadable, binary, store, tmpDir, proc, server, polls,
                   dbs, dbPos, keys, keyPos, entries, result, outWrites,
                   everTmp, everSpawned, probes, asked, harness>>

\* Lines 280-287: the metadata, and _collect_db_indexes.
CollectDbs ==
    /\ pc = "collect_dbs"
    /\ \E reply \in (IF proc = "running" THEN {Ok(InfoOf(store))} ELSE {})
                    \cup {Raised("Connection refused")} :
          dbs' = CollectDbIndexes(reply)
    /\ dbPos' = 1
    /\ pc' = "select"
    /\ UNCHANGED <<rdbExists, rdbReadable, binary, store, tmpDir, proc, server, polls,
                   keys, keyPos, entries, result, outWrites, err,
                   everTmp, everSpawned, probes, asked, harness>>

\* Line 288 with the loop left after its first iteration (mutant).
LoopOverAfterFirst(pos, indexes) == pos > 1

\* Line 288: the loop over dbs is over.
LoopOver(pos, indexes) == pos > Len(indexes)

\* Lines 288-291: the next database is selected and scanned; either command
\* may raise. After the last database the loop is left.
SelectDb ==
    /\ pc = "select"
    /\ IF LoopOver(dbPos, dbs)
       THEN pc' = "write" /\ UNCHANGED <<keys, keyPos, entries, err>>
       ELSE \/ /\ proc = "running"
               /\ keys' = ScanKeys(store, dbs[dbPos])
               /\ keyPos' = 1
               /\ entries' = <<>>
               /\ pc' = "read_keys"
               /\ err' = err
            \/ /\ pc' = "finally"
               /\ err' = Propagated("ConnectionError", "Connection refused")
               /\ UNCHANGED <<keys, keyPos, entries>>
    /\ UNCHANGED <<rdbExists, rdbReadable, binary, store, tmpDir, proc, server, polls,
                   dbs, dbPos, result, outWrites,
                   everTmp, everSpawned, probes, asked, harness>>

\* Lines 291-292: _read_key_entry for the next key, and the append.
ReadKey ==
    /\ pc = "read_keys"
    /\ keyPos <= Len(keys)
    /\ \E i \in 1..Len(KeyReplies) :
          LET q == IF proc = "running" THEN KeyReplies[i] ELSE DeadReplies
              r == ReadKeyEntry(keys[keyPos], q.typeReply, q.pttlReply, q.valReply)
          IN  /\ asked' = Append(asked, [db |-> dbs[dbPos], key |-> keys[keyPos],
                                         typeOk |-> q.typeReply.ok,
                                         pttlOk |-> q.pttlReply.ok,
                                         valOk |-> q.valReply.ok])
              /\ IF r.raised
                 THEN /\ pc' = "finally"
                      /\ err' = Propagated("ConnectionError", r.exc)
                      /\ UNCHANGED <<entries, keyPos>>
                 ELSE /\ entries' = Append(entries, r.entry)
                      /\ keyPos' = keyPos + 1
                      /\ UNCHANGED <<pc, err>>
    /\ UNCHANGED <<rdbExists, rdbReadable, binary, store, tmpDir, proc, server, polls,
                   dbs, dbPos, keys, result, outWrites,
                   everTmp, everSpawned, probes, harness>>

\* Line 293: the entries of the database go into the document.
StoreDb ==
    /\ pc = "read_keys"
    /\ keyPos > Len(keys)
    /\ result' = Append(result, [db |-> dbs[dbPos], entries |-> entries])
    /\ dbPos' = dbPos + 1
    /\ pc' = "select"
    /\ UNCHANGED <<rdbExists, rdbReadable, binary, store, tmpDir, proc, server, polls,
                   dbs, keys, keyPos, entries, outWrites, err,
                   everTmp, everSpawned, probes, asked, harness>>

\* Lines 295-296: the destination is opened, which may fail, and the
\* document is written.
WriteOut ==
    /\ pc = "write"
    /\ \/ outWrites' = outWrites + 1 /\ err' = err
       \/ outWrites' = outWrites /\ err' = Propagated("OSError", "out_path")
    /\ pc' = "finally"
    /\ UNCHANGED <<rdbExists, rdbReadable, binary, store, tmpDir, proc, server, polls,
                   dbs, dbPos, keys, keyPos, entries, result,
                   everTmp, everSpawned, probes, asked, harness>>

\* Lines 297-307: a server still running is sent SIGTERM and waited for 5 s;
\* when it has not ended by then (TimeoutExpired) it is killed.
Finally ==
    /\ pc = "finally"
    /\ IF proc = "running"
       THEN /\ proc' \in {"exited", "killed"}
            /\ server' = "down"
       ELSE UNCHANGED <<proc, server>>
    /\ pc' = "rmtree"
    /\ UNCHANGED <<rdbExists, rdbReadable, binary, store, tmpDir, polls,
                   dbs, dbPos, keys, keyPos, entries, result, outWrites, err,
                   everTmp, everSpawned, probes, asked, harness>>

\* The end of the with statement of line 257: the directory is removed and
\* the call returns, or the exception goes on to the caller.
RemoveTmp ==
    /\ pc = "rmtree"
    /\ tmpDir' = "removed"
    /\ pc' = IF err = NoError THEN "done" ELSE "raised"
    /\ UNCHANGED <<rdbExists, rdbReadable, binary, store, proc, server, polls,
                   dbs, dbPos, keys, keyPos, entries, result, outWrites, err,
                   everTmp, everSpawned, probes, asked, harness>>

\* The steps of the call itself, as opposed to those of the server.
ExportStep ==
    \/ CheckRdb \/ ProbeBinary \/ MakeTemp \/ StartRedis \/ Poll \/ PollTimeout
    \/ ReadDiag \/ CollectDbs \/ SelectDb \/ ReadKey \/ StoreDb \/ WriteOut
    \/ Finally \/ RemoveTmp

Next == ExportStep \/ ServerReady \/ ServerExits

Spec == InitExport /\ [][Next]_vars

\* The call is one thread that runs on whenever it can; the server owes
\* nothing.
FairSpec == Spec /\ WF_vars(ExportStep)

(***************************************************************************)
(* Properties of _encode_bytes (SpecEncode).                               *)
(***************************************************************************)
B64Index(c) == (CHOOSE i \in 1..64 : B64Alphabet[i] = c) - 1

RECURSIVE B64Decode(_)
\* The standard base64 decoding of padded text.
B64Decode(chars) ==
    IF Len(chars) < 4 THEN <<>>
    ELSE LET i1 == B64Index(chars[1])
             i2 == B64Index(chars[2])
         IN  IF chars[3] = "=" THEN <<i1 * 4 + (i2 \div 16)>>
             ELSE LET i3 == B64Index(chars[3])
                  IN  IF chars[4] = "="
                      THEN <<i1 * 4 + (i2 \div 16), (i2 % 16) * 16 + (i3 \div 4)>>
                      ELSE <<i1 * 4 + (i2 \div 16), (i2 % 16) * 16 + (i3 \div 4),
                             (i3 % 4) * 64 + B64Index(chars[4])>>
                           \o B64Decode(SubSeq(chars, 5, Len(chars)))

\* A reader's decoding of an EncodedBytes object per its encoding field.
DecodeEncoded(e) ==
    IF e.encoding = "utf-8" THEN Utf8Encode(e.data) ELSE B64Decode(e.data)

InRange(b, lo, hi) == b >= lo /\ b <= hi

RECURSIVE WellFormedUtf8(_)
\* Well-formed UTF-8 byte sequences, by the table of RFC 3629 / Unicode 3.9.
WellFormedUtf8(b) ==
    IF b = <<>> THEN TRUE
    ELSE LET n == Len(b)
             rest(k) == WellFormedUtf8(SubSeq(b, k + 1, n))
         IN  \/ InRange(b[1], 0, 127) /\ rest(1)
             \/ n >= 2 /\ InRange(b[1], 194, 223) /\ InRange(b[2], 128, 191) /\ rest(2)
             \/ /\ n >= 3
                /\ \/ b[1] = 224 /\ InRange(b[2], 160, 191)
                   \/ InRange(b[1], 225, 236) /\ InRange(b[2], 128, 191)
                   \/ b[1] = 237 /\ InRange(b[2], 128, 159)
                   \/ InRange(b[1], 238, 239) /\ InRange(b[2], 128, 191)
                /\ InRange(b[3], 128, 191)
                /\ rest(3)
             \/ /\ n >= 4
                /\ \/ b[1] = 240 /\ InRange(b[2], 144, 191)
                   \/ InRange(b[1], 241, 243) /\ InRange(b[2], 128, 191)
                   \/ b[1] = 244 /\ InRange(b[2], 128, 143)
                /\ InRange(b[3], 128, 191)
                /\ InRange(b[4], 128, 191)
                /\ rest(4)

\* C4: decoding the data of _encode_bytes(B) per its encoding yields B, and
\* the encoding is "utf-8" exactly when B is well-formed UTF-8, "base64"
\* otherwise.
C4_RoundTrip ==
    encOut # <<>> =>
        LET e == encOut[1]
        IN  /\ e.encoding \in {"utf-8", "base64"}
            /\ DecodeEncoded(e) = encIn
            /\ (e.encoding = "utf-8") <=> WellFormedUtf8(encIn)

\* C4's case: a byte string with a NUL byte that is not UTF-8 was encoded.
C4_Witness ==
    /\ encOut # <<>>
    /\ encOut[1].encoding = "base64"
    /\ Len(encIn) = 4
    /\ \E i \in 1..Len(encIn) : encIn[i] = 0

(***************************************************************************)
(* Properties of _read_key_entry (SpecReadKey).                            *)
(***************************************************************************)
Returned == rkOut # <<>> /\ ~rkOut[1].raised

\* C3: every record _read_key_entry returns has exactly one of the fields
\* value and error, whatever the type and whether the retrieval raised.
C3_ExactlyOneOfValueError ==
    Returned =>
        LET e == rkOut[1].entry
        IN  ("value" \in DOMAIN e) # ("error" \in DOMAIN e)

\* C3's case: the retrieval of a sorted set raised, and the record came back.
C3_Witness ==
    /\ Returned
    /\ rkOut[1].entry.type = "zset"
    /\ ~rkIn.valReply.ok
    /\ "error" \in DOMAIN rkOut[1].entry

\* C5 as claimed: ttl_ms is the reported lifetime when that is positive, and
\* None for every other reply, zero included.
C5_TtlPositiveOnly ==
    Returned =>
        rkOut[1].entry.ttl_ms =
            IF rkIn.pttlReply.ok /\ rkIn.pttlReply.val > 0
            THEN PyInt(rkIn.pttlReply.val) ELSE None

\* C5 amended: ttl_ms is the reported lifetime when that is zero or more, and
\* None when the reply is negative or the query raised.
C5_TtlNonNegative ==
    Returned =>
        rkOut[1].entry.ttl_ms =
            IF rkIn.pttlReply.ok /\ rkIn.pttlReply.val >= 0
            THEN PyInt(rkIn.pttlReply.val) ELSE None

\* C5's case: PTTL replied 0 and the record holds a ttl_ms.
C5_Witness ==
    /\ Returned
    /\ rkIn.pttlReply.ok
    /\ rkIn.pttlReply.val = 0
    /\ rkOut[1].entry.ttl_ms # None

SevenTags == KnownTypes \cup {"other"}

\* C7 as claimed: the type of every record is one of the seven tags, and a
\* key of no known type is recorded as "other" with the value
\* {encoding: "dump-base64", data: base64 of the dump}.
C7_SevenTags ==
    Returned =>
        LET e == rkOut[1].entry
        IN  /\ e.type \in SevenTags
            /\ rkIn.typeReply.val \notin KnownTypes =>
                  /\ e.type = "other"
                  /\ "value" \in DOMAIN e =>
                        /\ e.value.encoding = "dump-base64"
                        /\ e.value.data # None

\* C7 amended: the type of every record is the type the store reported,
\* unchanged; a key of no known type whose DUMP did not raise has the value
\* {encoding: "redis-dump-base64", data: base64 of the dump, or None when
\* the store returned no dump}.
C7_ReportedType ==
    Returned =>
        LET e == rkOut[1].entry
        IN  /\ e.type = rkIn.typeReply.val
            /\ (rkIn.typeReply.val \notin KnownTypes /\ rkIn.valReply.ok) =>
                  /\ "value" \in DOMAIN e
                  /\ e.value.encoding = "redis-dump-base64"
                  /\ e.value.data =
                        IF rkIn.valReply.val = None THEN None
                        ELSE PyStr(B64(rkIn.valReply.val.b))

\* C7's case: a key of a module type was dumped.
C7_Witness ==
    /\ Returned
    /\ rkOut[1].entry.type = "ReJSON-RL"
    /\ "value" \in DOMAIN rkOut[1].entry
    /\ rkOut[1].entry.value.data # None

(***************************************************************************)
(* Properties of _collect_db_indexes (SpecDbs).                            *)
(***************************************************************************)
\* The database indexes of a server with the default 16 databases.
DbIndexRange == 0..15

\* The databases a keyspace summary reports as holding keys.
ReportedDbs(reply) ==
    {n \in DbIndexRange :
        \E i \in 1..Len(reply.val) : reply.val[i].name = DbName(n) /\ reply.val[i].keys >= 1}

Ascending(q) == \A i \in 1..Len(q) : \A j \in 1..Len(q) : i < j => q[i] < q[j]

\* C6 as claimed: when the summary query succeeds the result is exactly the
\* reported databases, ascending and without duplicates; database 0 is
\* assumed unreported only when the query fails.
C6_ExactlyReported ==
    dbsOut # <<>> =>
        IF infoReply.ok
        THEN Ascending(dbsOut[1]) /\ SeqRange(dbsOut[1]) = ReportedDbs(infoReply)
        ELSE dbsOut[1] = <<0>>

\* C6 amended: when the summary query succeeds and reports at least one
\* database the result is exactly the reported databases, ascending and
\* without duplicates; when the query fails or reports no database the
\* result is database 0 alone.
C6_ReportedOrZero ==
    dbsOut # <<>> =>
        IF infoReply.ok /\ ReportedDbs(infoReply) # {}
        THEN Ascending(dbsOut[1]) /\ SeqRange(dbsOut[1]) = ReportedDbs(infoReply)
        ELSE dbsOut[1] = <<0>>

\* C6's case: the summary reported several databases out of order.
C6_Witness ==
    /\ dbsOut # <<>>
    /\ infoReply.ok
    /\ Len(infoReply.val) = 3
    /\ infoReply.val[1].name = DbName(10)
    /\ infoReply.val[3].name = DbName(1)
    /\ Len(dbsOut[1]) = 3

(***************************************************************************)
(* Properties of the conversation filter (SpecFilter).                     *)
(***************************************************************************)
\* The record's key reads chat:session_<id>.
HasSessionKey(e) ==
    /\ IsDict(e)
    /\ GetKeyString(e) # None
    /\ SessionKeyMatch(GetKeyString(e)).ok

\* The record's value is utf-8 text.
HasUtf8Value(e) == IsDict(e) /\ GetUtf8ValueString(e) # None

\* A non-empty list with a role+content mapping among its first 10 elements.
ConversationShaped(v) ==
    /\ IsList(v)
    /\ v.l # <<>>
    /\ \E i \in 1..Len(v.l) : i <= 10 /\ IsTurn(v.l[i])

\* What the filter is to do with a record: "pair", or the counter of the
\* first failing reason.
Outcome(e) ==
    IF ~IsDict(e) \/ GetKeyString(e) = None \/ GetKeyString(e) = <<>> THEN "skipped"
    ELSE IF ~HasSessionKey(e) THEN "not_session_key"
    ELSE IF ~HasUtf8Value(e) THEN "skipped"
    ELSE IF ~JsonLoads(GetUtf8ValueString(e)).ok THEN "parsed_fail"
    ELSE IF ~ConversationShaped(JsonLoads(GetUtf8ValueString(e)).val) THEN "not_conversation"
    ELSE "pair"

CountOf(what) == Cardinality({i \in 1..fIdx : Outcome(fEntries[i]) = what})

RECURSIVE PairsOf(_)
\* The pairs of the records of a prefix with outcome "pair", in input order.
PairsOf(prefix) ==
    IF prefix = <<>> THEN <<>>
    ELSE LET e == prefix[Len(prefix)]
             before == PairsOf(SubSeq(prefix, 1, Len(prefix) - 1))
         IN  IF Outcome(e) = "pair"
             THEN Append(before,
                         [session_id |-> SessionKeyMatch(GetKeyString(e)).sid,
                          conversation |-> JsonLoads(GetUtf8ValueString(e)).val])
             ELSE before

IsStringTyped(e) == IsDict(e) /\ Get(e, "type") = JStr(StrString)

Ended == pc \in {"done", "raised"}

\* C1: once the server process is spawned, the call reaches its end with the
\* process no longer running and the temporary directory removed.
C1_TeardownReached ==
    everSpawned ~> (Ended /\ proc # "running" /\ tmpDir = "removed")

RECURSIVE Flatten(_)
\* The entries of the databases of a document, one after the other.
Flatten(res) ==
    IF res = <<>> THEN <<>> ELSE res[1].entries \o Flatten(Tail(res))

\* The records collected so far.
AllEntries == Flatten(result) \o (IF pc = "read_keys" THEN entries ELSE <<>>)

\* C2: every key whose queries were made has its record among the entries;
\* the record carries error and no value when one of the three queries
\* (type, lifetime, retrieval) failed, and value and no error otherwise.
C2_PerKeyIsolation ==
    /\ Len(AllEntries) = Len(asked)
    /\ \A i \in 1..Len(asked) :
          LET failed == ~(asked[i].typeOk /\ asked[i].pttlOk /\ asked[i].valOk)
          IN  /\ ("error" \in DOMAIN AllEntries[i]) = failed
              /\ ("value" \in DOMAIN AllEntries[i]) = ~failed

\* The executable cannot be invoked: there is none, or it may not be run.
Uninvocable == binary \in {"missing", "noexec"}

NothingLaunched == ~everTmp /\ ~everSpawned /\ probes = 0 /\ outWrites = 0

\* C8 as claimed: with an executable that cannot be invoked the call fails
\* with an error of a class other than that of the startup failure, before
\* the directory, the copy, the spawn and any probe.
C8_DistinctErrorClass ==
    Uninvocable =>
        /\ NothingLaunched
        /\ pc = "raised" => err.cls # StartupFailure.cls

\* C8 amended: with an executable that cannot be invoked the call fails before
\* the directory, the copy, the spawn and any probe, and writes nothing; the
\* error is the FileNotFoundError of a missing snapshot (checked first), else
\* a RuntimeError, the class of the startup failure too, for an executable
\* that is not found, and the PermissionError of the operating system for
\* one that may not be run.
C8_FailsBeforeLaunch ==
    Uninvocable =>
        /\ NothingLaunched
        /\ pc \in {"start", "probe_binary", "raised"}
        /\ pc = "raised" =>
              err = IF ~rdbExists THEN RdbMissing
                    ELSE IF binary = "missing" THEN CouldNotRun
                    ELSE Propagated("PermissionError", "")

\* C8's case: the snapshot is there, the executable is not, the call failed.
C8_Witness ==
    /\ pc = "raised"
    /\ rdbExists
    /\ binary = "missing"
    /\ err.cls = StartupFailure.cls

\* The document holds every database found and a record per key of each.
Complete ==
    /\ Len(result) = Len(dbs)
    /\ \A i \in 1..Len(result) :
          LET ks == ScanKeys(store, dbs[i])
          IN  /\ result[i].db = dbs[i]
              /\ Len(result[i].entries) = Len(ks)
              /\ \A j \in 1..Len(ks) : result[i].entries[j].key = EncodeKey(ks[j])

\* C9: the destination is written at most once, only after every database
\* found was scanned and its records collected; a call that fails before
\* that leaves the destination untouched.
C9_NoPartialOutput ==
    /\ outWrites <= 1
    /\ outWrites = 1 => Complete /\ pc \in {"finally", "rmtree", "done"}
    /\ err # NoError => outWrites = 0

\* C9's case: a snapshot of two databases was exported and written.
C9_Witness ==
    /\ pc = "done"
    /\ outWrites = 1
    /\ Len(result) = 2
    /\ \A i \in 1..2 : result[i].entries # <<>>

====
